---------------------------- MODULE Spec2Model ----------------------------
(***************************************************************************)
(* A model of the bitcoin-amount crate (src/src/lib.rs): the Amount        *)
(* newtype over Inner = i64, its constructors and arithmetic operators,    *)
(* and Amount::from_str, which parses through f64.                         *)
(*                                                                         *)
(* TLC's integers are 32 bits wide, so the 64-bit integers and the IEEE    *)
(* doubles of the program are computed exactly on arbitrary-precision      *)
(* naturals: little-endian sequences of limbs in base 2^15.                *)
(***************************************************************************)
EXTENDS Integers, Sequences, FiniteSets

(***************************************************************************)
(* Arbitrary-precision naturals.  <<>> is 0; the highest limb is never 0.  *)
(***************************************************************************)
LimbBits == 15
Base == 2^LimbBits

RECURSIVE Nat2Big(_)
Nat2Big(n) == IF n = 0 THEN <<>> ELSE <<n % Base>> \o Nat2Big(n \div Base)

RECURSIVE Trim(_)
Trim(a) ==
  IF a = <<>> THEN <<>>
  ELSE IF a[Len(a)] = 0 THEN Trim(SubSeq(a, 1, Len(a) - 1))
  ELSE a

Rest(a) == IF a = <<>> THEN <<>> ELSE Tail(a)
Low(a) == IF a = <<>> THEN 0 ELSE Head(a)

RECURSIVE BAddC(_, _, _)
BAddC(a, b, c) ==
  IF a = <<>> /\ b = <<>> THEN (IF c = 0 THEN <<>> ELSE <<c>>)
  ELSE LET s == Low(a) + Low(b) + c
       IN  <<s % Base>> \o BAddC(Rest(a), Rest(b), s \div Base)

BAdd(a, b) == BAddC(a, b, 0)

\* a - b - c for a >= b + c, untrimmed
RECURSIVE BSubC(_, _, _)
BSubC(a, b, c) ==
  IF a = <<>> THEN <<>>
  ELSE LET d == Low(a) - Low(b) - c
       IN  IF d < 0 THEN <<d + Base>> \o BSubC(Rest(a), Rest(b), 1)
           ELSE <<d>> \o BSubC(Rest(a), Rest(b), 0)

BSub(a, b) == Trim(BSubC(a, b, 0))

\* -1, 0, 1 as a < b, a = b, a > b
RECURSIVE BCmpFrom(_, _, _)
BCmpFrom(a, b, i) ==
  IF i = 0 THEN 0
  ELSE IF a[i] < b[i] THEN -1
  ELSE IF a[i] > b[i] THEN 1
  ELSE BCmpFrom(a, b, i - 1)

BCmp(a, b) ==
  IF Len(a) < Len(b) THEN -1
  ELSE IF Len(a) > Len(b) THEN 1
  ELSE BCmpFrom(a, b, Len(a))

\* a * k + c for 0 <= k, c < Base
RECURSIVE BMulSmallC(_, _, _)
BMulSmallC(a, k, c) ==
  IF a = <<>> THEN (IF c = 0 THEN <<>> ELSE <<c>>)
  ELSE LET p == Head(a) * k + c
       IN  <<p % Base>> \o BMulSmallC(Tail(a), k, p \div Base)

BMulSmall(a, k) == IF k = 0 THEN <<>> ELSE BMulSmallC(a, k, 0)

RECURSIVE BMul(_, _)
BMul(a, b) ==
  IF a = <<>> \/ b = <<>> THEN <<>>
  ELSE BAdd(BMulSmall(a, Head(b)),
            LET t == BMul(a, Tail(b)) IN IF t = <<>> THEN <<>> ELSE <<0>> \o t)

Zeros(n) == [i \in 1..n |-> 0]

BShl(a, k) ==
  IF a = <<>> THEN <<>>
  ELSE Zeros(k \div LimbBits) \o BMulSmall(a, 2^(k % LimbBits))

BShr(a, k) ==
  LET w == k \div LimbBits
      r == k % LimbBits
      d == IF w >= Len(a) THEN <<>> ELSE SubSeq(a, w + 1, Len(a))
  IN  Trim([i \in 1..Len(d) |->
              (d[i] \div 2^r)
              + ((IF i < Len(d) THEN d[i + 1] ELSE 0) % 2^r) * 2^(LimbBits - r)])

\* the low k bits of a
BLowBits(a, k) ==
  LET w == k \div LimbBits
      r == k % LimbBits
  IN  IF Len(a) <= w THEN a
      ELSE Trim(SubSeq(a, 1, w) \o <<a[w + 1] % 2^r>>)

RECURSIVE SmallBitLen(_)
SmallBitLen(n) == IF n = 0 THEN 0 ELSE 1 + SmallBitLen(n \div 2)

BitLen(a) ==
  IF a = <<>> THEN 0 ELSE LimbBits * (Len(a) - 1) + SmallBitLen(a[Len(a)])

BOdd(a) == Low(a) % 2 = 1

\* the largest q in cand .. cand + 2^(bit+1) - 1 with q * d <= rem
RECURSIVE BQuotLimb(_, _, _, _)
BQuotLimb(rem, d, bit, cand) ==
  IF bit < 0 THEN cand
  ELSE IF BCmp(BMulSmall(d, cand + 2^bit), rem) <= 0
       THEN BQuotLimb(rem, d, bit - 1, cand + 2^bit)
       ELSE BQuotLimb(rem, d, bit - 1, cand)

\* one limb of the schoolbook division: <<q, rem>> after bringing down n[i]
BDivLimb(n, d, i, q, rem) ==
  LET cur == Trim(<<n[i]>> \o rem)
      ql  == BQuotLimb(cur, d, LimbBits - 1, 0)
  IN  <<Trim(<<ql>> \o q), BSub(cur, BMulSmall(d, ql))>>

\* <<quotient, remainder>> of n by d > 0, limbs of n from the highest down
RECURSIVE BDivStep(_, _, _, _, _)
BDivStep(n, d, i, q, rem) ==
  IF i = 0 THEN <<q, rem>>
  ELSE CHOOSE r \in {BDivStep(n, d, i - 1, p[1], p[2]) :
                       p \in {BDivLimb(n, d, i, q, rem)}} : TRUE

BDivMod(n, d) == BDivStep(n, d, Len(n), <<>>, <<>>)

\* 10^k, by squaring
RECURSIVE BPow10(_)
BPow10(k) ==
  IF k = 0 THEN <<1>>
  ELSE CHOOSE r \in {IF k % 2 = 1 THEN BMulSmall(BMul(h, h), 10) ELSE BMul(h, h) :
                       h \in {BPow10(k \div 2)}} : TRUE

(***************************************************************************)
(* Integers: a sign and a magnitude.  Zero is never negative.              *)
(***************************************************************************)
ZMk(neg, mag) == [neg |-> neg /\ mag # <<>>, mag |-> mag]
ZInt(n) == IF n < 0 THEN ZMk(TRUE, Nat2Big(-n)) ELSE ZMk(FALSE, Nat2Big(n))
ZNeg(x) == ZMk(~x.neg, x.mag)

ZAdd(x, y) ==
  IF x.neg = y.neg THEN ZMk(x.neg, BAdd(x.mag, y.mag))
  ELSE IF BCmp(x.mag, y.mag) >= 0 THEN ZMk(x.neg, BSub(x.mag, y.mag))
  ELSE ZMk(y.neg, BSub(y.mag, x.mag))

ZSub(x, y) == ZAdd(x, ZNeg(y))
ZMul(x, y) == ZMk(x.neg # y.neg, BMul(x.mag, y.mag))
\* the quotient rounded towards zero, for y # 0
ZDivTrunc(x, y) == ZMk(x.neg # y.neg, BDivMod(x.mag, y.mag)[1])

ZCmp(x, y) ==
  IF x.neg /\ ~y.neg THEN -1
  ELSE IF ~x.neg /\ y.neg THEN 1
  ELSE IF x.neg THEN BCmp(y.mag, x.mag)
  ELSE BCmp(x.mag, y.mag)

ZLe(x, y) == ZCmp(x, y) <= 0
ZLt(x, y) == ZCmp(x, y) < 0

(***************************************************************************)
(* The program's state.  The crate keeps none of its own: the state is     *)
(* what a caller holds between calls.                                      *)
(*   first, second   the last two Amounts returned to the caller           *)
(*   ret             the record of the last call: its name, its arguments, *)
(*                   how it ended and what it returned                     *)
(*   input           the text handed to Amount::from_str                   *)
(*   calls           the number of calls made so far                       *)
(*   overflow_checks the build profile: TRUE when integer overflow panics  *)
(*                   (debug), FALSE when it wraps (release)                *)
(***************************************************************************)
VARIABLES first, second, ret, input, calls, overflow_checks

vars == <<first, second, ret, input, calls, overflow_checks>>

(***************************************************************************)
(* Inner = i64                                                             *)
(***************************************************************************)
TwoPow63 == BShl(<<1>>, 63)
TwoPow64 == BShl(<<1>>, 64)
Inner_max_value == ZMk(FALSE, BSub(TwoPow63, <<1>>))
Inner_min_value == ZMk(TRUE, TwoPow63)

InInner(z) == ZLe(Inner_min_value, z) /\ ZLe(z, Inner_max_value)

\* z modulo 2^64, read as a two's complement i64
Wrap64(z) ==
  LET low == BLowBits(z.mag, 64)
      u   == IF z.neg /\ low # <<>> THEN BSub(TwoPow64, low) ELSE low
  IN  IF BCmp(u, TwoPow63) >= 0 THEN ZMk(TRUE, BSub(TwoPow64, u))
      ELSE ZMk(FALSE, u)

\* how a call ends: it returns a value, it panics, or it returns Err(e)
Returned(v) == [status |-> "ok", val |-> v, err |-> "none"]
Panicked == [status |-> "panic", val |-> <<>>, err |-> "none"]
Failed(e) == [status |-> "err", val |-> <<>>, err |-> e]

\* the i64 operators +, -, *: the exact result z when it fits; otherwise a
\* panic with overflow checks on and the wrapped result with them off
Overflowing(z) ==
  IF InInner(z) THEN Returned(z)
  ELSE IF overflow_checks THEN Panicked
  ELSE Returned(Wrap64(z))

\* the i64 operator /: panics on a zero divisor and on MIN / -1
InnerDiv(x, y) ==
  IF y.mag = <<>> THEN Panicked
  ELSE IF x = Inner_min_value /\ y = ZInt(-1) THEN Panicked
  ELSE Returned(ZDivTrunc(x, y))

(***************************************************************************)
(* f64: an IEEE 754 double is NaN, an infinity, or (-1)^neg * m * 2^e with *)
(* m < 2^53 (m = 2^53 stands for 2^52 * 2^(e+1)).  Every operation rounds  *)
(* its exact result to the nearest double, ties to even.                   *)
(***************************************************************************)
F64Finite(neg, m, e) == [kind |-> "finite", neg |-> neg, m |-> m, e |-> e]
F64Inf(neg) == [kind |-> "inf", neg |-> neg, m |-> <<>>, e |-> 0]
F64NaN == [kind |-> "nan", neg |-> FALSE, m |-> <<>>, e |-> 0]
F64Zero(neg) == F64Finite(neg, <<>>, 0)

MantissaBits == 53
MinExp == -1074
MaxBits == 1024

\* the quotient qr[1] (remainder qr[2]) of a division by den, scaled by 2^e,
\* rounded to nearest, ties to even
RoundQuot(neg, qr, den, e) ==
  LET c  == BCmp(BAdd(qr[2], qr[2]), den)
      up == c > 0 \/ (c = 0 /\ BOdd(qr[1]))
      m  == IF up THEN BAddC(qr[1], <<>>, 1) ELSE qr[1]
  IN  IF m = <<>> THEN F64Zero(neg)
      ELSE IF BitLen(m) + e > MaxBits THEN F64Inf(neg)
      ELSE F64Finite(neg, m, e)

\* the double nearest to (-1)^neg * (P / Q) * 2^e0, for Q > 0
RoundF64(neg, P, Q, e0) ==
  IF P = <<>> THEN F64Zero(neg)
  ELSE
    LET s == BitLen(P) - BitLen(Q)
        \* L is the floor of log2(P / Q)
        L == IF BCmp(BShl(P, IF s < 0 THEN -s ELSE 0),
                     BShl(Q, IF s > 0 THEN s ELSE 0)) >= 0 THEN s ELSE s - 1
        t0 == L - (MantissaBits - 1)
        t == IF t0 + e0 < MinExp THEN MinExp - e0 ELSE t0
        num == IF t < 0 THEN BShl(P, -t) ELSE P
        den == IF t > 0 THEN BShl(Q, t) ELSE Q
    IN  CHOOSE r \in {RoundQuot(neg, qr, den, t + e0) : qr \in {BDivMod(num, den)}} : TRUE

F64Neg(a) == [a EXCEPT !.neg = (a.kind # "nan") /\ ~a.neg]
F64IsZero(a) == a.kind = "finite" /\ a.m = <<>>

\* a * b
F64Mul(a, b) ==
  IF a.kind = "nan" \/ b.kind = "nan" THEN F64NaN
  ELSE IF a.kind = "inf" \/ b.kind = "inf"
       THEN IF F64IsZero(a) \/ F64IsZero(b) THEN F64NaN ELSE F64Inf(a.neg # b.neg)
  ELSE RoundF64(a.neg # b.neg, BMul(a.m, b.m), <<1>>, a.e + b.e)

\* a + b
F64Add(a, b) ==
  IF a.kind = "nan" \/ b.kind = "nan" THEN F64NaN
  ELSE IF a.kind = "inf" /\ b.kind = "inf"
       THEN IF a.neg = b.neg THEN a ELSE F64NaN
  ELSE IF a.kind = "inf" THEN a
  ELSE IF b.kind = "inf" THEN b
  ELSE IF F64IsZero(a) /\ F64IsZero(b) THEN F64Zero(a.neg /\ b.neg)
  ELSE IF F64IsZero(a) THEN b
  ELSE IF F64IsZero(b) THEN a
  ELSE
    LET e == IF a.e < b.e THEN a.e ELSE b.e
        z == ZAdd(ZMk(a.neg, BShl(a.m, a.e - e)), ZMk(b.neg, BShl(b.m, b.e - e)))
    IN  RoundF64(z.neg, z.mag, <<1>>, e)

\* a - b
F64Sub(a, b) == F64Add(a, F64Neg(b))

\* a < 0.0
F64Negative(a) == a.kind # "nan" /\ a.neg /\ ~F64IsZero(a)

\* a finite double with its fraction dropped
F64Trunc(a) ==
  ZMk(a.neg, IF a.e >= 0 THEN BShl(a.m, a.e) ELSE BShr(a.m, -a.e))

F64FitsInner(a) ==
  /\ a.kind = "finite"
  /\ BitLen(a.m) + a.e <= 64
  /\ InInner(F64Trunc(a))

\* `a as Inner`.  In range the cast truncates towards zero.  Out of range
\* (NaN included) the cast saturates in a toolchain from Rust 1.45 on (NaN
\* gives 0); before that it was undefined behaviour, and the x86-64
\* conversion instruction gives i64::MIN.
F64AsInner(a) ==
  IF F64FitsInner(a) THEN {F64Trunc(a)}
  ELSE {IF a.kind = "nan" THEN ZInt(0)
        ELSE IF a.neg THEN Inner_min_value ELSE Inner_max_value,
        Inner_min_value}

(***************************************************************************)
(* f64::from_str (std), called at lib.rs:147.  A text is a sequence of     *)
(* one-character strings.  The grammar is the documented one:              *)
(*   Float  ::= Sign? ( 'inf' | 'infinity' | 'nan' | Number )              *)
(*   Number ::= ( Digit+ | Digit+ '.' Digit* | Digit* '.' Digit+ ) Exp?    *)
(*   Exp    ::= 'e' Sign? Digit+          Sign ::= [+-]                    *)
(* letters in either case; the result is the double nearest to the decimal *)
(* value.                                                                  *)
(***************************************************************************)
DigitChars == <<"0", "1", "2", "3", "4", "5", "6", "7", "8", "9">>
IsDigit(c) == \E d \in 1..10 : DigitChars[d] = c
DigitVal(c) == (CHOOSE d \in 1..10 : DigitChars[d] = c) - 1

UpperChars == <<"A", "E", "F", "I", "N", "T", "Y">>
LowerChars == <<"a", "e", "f", "i", "n", "t", "y">>
Lower(c) ==
  IF \E k \in 1..Len(UpperChars) : UpperChars[k] = c
  THEN LowerChars[CHOOSE k \in 1..Len(UpperChars) : UpperChars[k] = c]
  ELSE c

\* the index of the last digit of the maximal digit run of s starting at i
\* (i - 1 when s has no digit at i)
RECURSIVE DigitRun(_, _)
DigitRun(s, i) ==
  IF i <= Len(s) /\ IsDigit(s[i]) THEN DigitRun(s, i + 1) ELSE i - 1

\* the number a digit run denotes
RECURSIVE DecValue(_)
DecValue(ds) ==
  IF ds = <<>> THEN <<>>
  ELSE BAddC(BMulSmall(DecValue(SubSeq(ds, 1, Len(ds) - 1)), 10), <<>>,
             DigitVal(ds[Len(ds)]))

\* the number an exponent's digit run denotes, as far as it matters: a
\* double overflows or underflows long before the cap
ExpCap == 10^6
RECURSIVE ExpValue(_)
ExpValue(ds) ==
  IF ds = <<>> THEN 0
  ELSE LET hi == ExpValue(SubSeq(ds, 1, Len(ds) - 1))
       IN  IF hi >= ExpCap THEN hi ELSE hi * 10 + DigitVal(ds[Len(ds)])

\* digits with the leading zeros dropped
RECURSIVE Significant(_)
Significant(ds) ==
  IF ds # <<>> /\ Head(ds) = "0" THEN Significant(Tail(ds)) ELSE ds

\* beyond these powers of ten every decimal is an infinity, or zero
DecimalInf == 310
DecimalZero == -330

\* the double nearest to (-1)^neg * digits * 10^x
DecimalToF64(neg, digits, x) ==
  LET n == Len(Significant(digits))
  IN  IF n = 0 THEN F64Zero(neg)
      ELSE IF n + x > DecimalInf THEN F64Inf(neg)
      ELSE IF n + x < DecimalZero THEN F64Zero(neg)
      ELSE RoundF64(neg,
                    BMul(DecValue(digits), BPow10(IF x > 0 THEN x ELSE 0)),
                    BPow10(IF x < 0 THEN -x ELSE 0), 0)

ParseNumber(neg, b) ==
  LET i1     == DigitRun(b, 1)
      hasDot == i1 < Len(b) /\ b[i1 + 1] = "."
      f1     == IF hasDot THEN DigitRun(b, i1 + 2) ELSE i1
      nFrac  == IF hasDot THEN f1 - (i1 + 1) ELSE 0
      p      == f1 + 1
      hasExp == p <= Len(b) /\ Lower(b[p]) = "e"
      hasSgn == hasExp /\ p < Len(b) /\ b[p + 1] \in {"+", "-"}
      q      == IF hasSgn THEN p + 2 ELSE p + 1
      x1     == IF hasExp THEN DigitRun(b, q) ELSE f1
      nExp   == IF hasExp THEN x1 - q + 1 ELSE 0
      exp    == ExpValue(SubSeq(b, q, x1))
      digits == SubSeq(b, 1, i1) \o SubSeq(b, i1 + 2, f1)
  IN  IF i1 + nFrac > 0 /\ (hasExp => nExp > 0) /\ x1 = Len(b)
      THEN Returned(DecimalToF64(neg, digits,
             (IF hasSgn /\ b[p + 1] = "-" THEN -exp ELSE exp) - nFrac))
      ELSE Failed("Invalid")

f64_from_str(s) ==
  IF s = <<>> THEN Failed("Empty")
  ELSE
    LET neg  == s[1] = "-"
        body == IF s[1] \in {"+", "-"} THEN Tail(s) ELSE s
        low  == [i \in 1..Len(body) |-> Lower(body[i])]
    IN  IF low = <<"i", "n", "f">> \/ low = <<"i", "n", "f", "i", "n", "i", "t", "y">>
        THEN Returned(F64Inf(neg))
        ELSE IF low = <<"n", "a", "n">> THEN Returned(F64NaN)
        ELSE ParseNumber(neg, body)

(***************************************************************************)
(* The crate: lib.rs                                                       *)
(***************************************************************************)
SAT_PER_BTC == 100000000
SAT_PER_BTC_FP == F64Finite(FALSE, Nat2Big(100000000), 0)
\* the literal 0.5 of round_and_to_sat
Half == F64Finite(FALSE, <<1>>, -1)

\* pub struct Amount(Inner): a tuple struct, its field is self.0
Amount(inner) == <<inner>>

MAX == Amount(Inner_max_value)
MIN == Amount(Inner_min_value)

\* a from_sat that takes its argument for a count of BTC
from_sat_as_btc(sat) == Amount(ZMul(sat, ZInt(SAT_PER_BTC)))
from_sat(sat) == Amount(sat)
zero == Amount(ZInt(0))
one == Amount(ZInt(1))
max_value == MAX
min_value == MIN
into_inner(self) == self[1]

\* a round_and_to_sat that drops the fraction instead of rounding
round_and_to_sat_truncating(v) == F64AsInner(F64Mul(v, SAT_PER_BTC_FP))
\* the set of values the cast may give (one value unless it is out of range)
round_and_to_sat(v) ==
  IF F64Negative(v)
  THEN F64AsInner(F64Sub(F64Mul(v, SAT_PER_BTC_FP), Half))
  ELSE F64AsInner(F64Add(F64Mul(v, SAT_PER_BTC_FP), Half))

into_btc(self) == {from_sat(sat) : sat \in round_and_to_sat(self)}
from_btc(btc) == into_btc(btc)

\* Amount::from_sat applied to the outcome of an i64 operation
FromSatOf(r) == IF r.status = "ok" THEN Returned(from_sat(r.val)) ELSE r

add(self, rhs) == FromSatOf(Overflowing(ZAdd(self[1], rhs[1])))
div(self, rhs) == FromSatOf(InnerDiv(self[1], rhs[1]))
\* a mul of BTC amounts: the product of the counts scaled back by SAT_PER_BTC
mul_as_btc(self, rhs) ==
  FromSatOf(Overflowing(ZDivTrunc(ZMul(self[1], rhs[1]), ZInt(SAT_PER_BTC))))
mul(self, rhs) == FromSatOf(Overflowing(ZMul(self[1], rhs[1])))
sub(self, rhs) == FromSatOf(Overflowing(ZSub(self[1], rhs[1])))

\* the set of outcomes of Amount::from_str: Err(ParseAmountError(e)) for the
\* error e of f64::from_str, Ok(Amount::from_btc(btc)) otherwise
from_str(s) ==
  LET btc == f64_from_str(s)
  IN  IF btc.status = "err" THEN {Failed(btc.err)}
      ELSE {Returned(a) : a \in from_btc(btc.val)}

\* tests::amount_add_div_mul_sub: ((a + b) * c) / c, a panic of an operator
\* ending the whole expression
amount_add_div_mul_sub(a, b, c) ==
  LET sum     == add(a, b)
      product == IF sum.status = "ok" THEN mul(sum.val, c) ELSE sum
  IN  IF product.status = "ok" THEN div(product.val, c) ELSE product

(***************************************************************************)
(* The inputs the calls are tried on.                                      *)
(***************************************************************************)
\* the supply ceiling of the specification, 21,000,000 BTC in satoshis
MAX_SUPPLY_BASE_UNITS == ZMul(ZInt(21000000), ZInt(SAT_PER_BTC))

\* the f64 a decimal literal denotes
Lit(s) == f64_from_str(s).val

SatInputs ==
  { ZInt(-1), ZInt(2), ZInt(253583),
    MAX_SUPPLY_BASE_UNITS, ZAdd(MAX_SUPPLY_BASE_UNITS, ZInt(1)) }

BtcInputs ==
  { Lit(<<"0", ".", "0", "0", "2", "5">>),
    Lit(<<"0", ".", "0", "0", "0", "5">>),
    Lit(<<"2", ".", "0">>),
    Lit(<<"-", "1", ".", "0">>),
    Lit(<<"1", "e", "3", "0">>) }

StrInputs ==
  { <<"0", ".", "0", "0", "2", "5", "3", "5", "8", "3">>,
    <<"2", "1", "0", "0", "0", "0", "0", "1">>,
    <<"5", ".", "0", "x">> }

MaxCalls == 3

(***************************************************************************)
(* The calls.  Each action is one call of the public API.  The caller      *)
(* holds the last two Amounts returned: first the older, second the newer. *)
(***************************************************************************)
NoCall == [op |-> "none", args |-> <<>>, status |-> "none", val |-> <<>>, err |-> "none"]

Call(op, args, out) ==
  /\ calls < MaxCalls
  /\ calls' = calls + 1
  /\ ret' = [op |-> op, args |-> args,
             status |-> out.status, val |-> out.val, err |-> out.err]
  /\ first' = IF out.status = "ok" THEN second ELSE first
  /\ second' = IF out.status = "ok" THEN out.val ELSE second
  /\ UNCHANGED overflow_checks

FromSat ==
  \E sat \in SatInputs :
    Call("from_sat", <<sat>>, Returned(from_sat(sat))) /\ UNCHANGED input

FromBtc ==
  \E btc \in BtcInputs : \E a \in from_btc(btc) :
    Call("from_btc", <<btc>>, Returned(a)) /\ UNCHANGED input

Zero == Call("zero", <<>>, Returned(zero)) /\ UNCHANGED input
One == Call("one", <<>>, Returned(one)) /\ UNCHANGED input
MaxValue ==
  Call("max_value", <<>>, Returned(max_value)) /\ UNCHANGED input
MinValue ==
  Call("min_value", <<>>, Returned(min_value)) /\ UNCHANGED input

Add == Call("add", <<first, second>>, add(first, second)) /\ UNCHANGED input
Sub == Call("sub", <<first, second>>, sub(first, second)) /\ UNCHANGED input
Mul == Call("mul", <<first, second>>, mul(first, second)) /\ UNCHANGED input
Div == Call("div", <<first, second>>, div(first, second)) /\ UNCHANGED input

FromStr ==
  \E s \in StrInputs : \E out \in from_str(s) :
    Call("from_str", <<s>>, out) /\ input' = s

\* tests::amount_add_div_mul_sub on the held Amounts and a third one
ThirdInputs ==
  {from_sat(sat) : sat \in SatInputs} \cup from_btc(Lit(<<"2", ".", "0">>))

AddDivMulSub ==
  \E c \in ThirdInputs :
    Call("add_div_mul_sub", <<first, second, c>>,
         amount_add_div_mul_sub(first, second, c))
    /\ UNCHANGED input

Init ==
  /\ first = zero
  /\ second = zero
  /\ ret = NoCall
  /\ input = <<>>
  /\ calls = 0
  /\ overflow_checks \in BOOLEAN

Next ==
  \/ FromSat \/ FromBtc \/ Zero \/ One \/ MaxValue \/ MinValue
  \/ Add \/ Sub \/ Mul \/ Div
  \/ FromStr
  \/ AddDivMulSub

Spec == Init /\ [][Next]_vars

(***************************************************************************)
(* Amount::from_str as a function of its text: the text is typed one       *)
(* character at a time, or pasted whole, and then parsed once.             *)
(***************************************************************************)
Alphabet == {"+", "-", ".", "0", "1", "5", "x"}
MaxLen == 3

\* the texts of the crate's tests and of the specification's examples
Examples ==
  { <<"0", ".", "0", "0", "2", "5", "3", "5", "8", "3">>,
    <<"0", ".", "1", "0", "0", "0", "0", "0", "0", "0">>,
    <<"2", "1", "0", "0", "0", "0", "0", "1">>,
    <<"2", "1", "0", "0", "0", "0", "0", "0", ".", "0", "0", "0", "0", "0", "0", "0", "1">>,
    <<"5", ".", "0", "x">>,
    <<"1", "e", "2">>,
    <<"2", "5", "E", "-", "1">>,
    <<"1", "e", "3", "0">>,
    <<"-", "1", "e", "3", "0">>,
    <<"i", "n", "f">>,
    <<"-", "I", "n", "f", "i", "n", "i", "t", "y">>,
    <<"N", "a", "N">>,
    <<"0", ".", "1", "2", "3", "4", "5", "6", "7", "8", "9">> }

Signs == {<<>>, <<"+">>, <<"-">>}
Integrals ==
  { <<"0">>, <<"5">>, <<"0", "0", "2", "1">>, <<"1", "2", "3", "4">>,
    <<"2", "0", "9", "9", "9", "9", "9", "9">>,
    <<"2", "1", "0", "0", "0", "0", "0", "0">> }
Fractions ==
  { <<>>, <<"0">>, <<"2", "9">>, <<"5", "8">>, <<"0", "0", "3">>,
    <<"0", "0", "0", "0", "0", "0", "0", "1">>,
    <<"1", "0", "0", "0", "0", "0", "0", "0">>,
    <<"0", "0", "0", "0", "0", "0", "0", "0">>,
    <<"9", "9", "9", "9", "9", "9", "9", "9">>,
    <<"1", "2", "3", "4", "5", "6", "7">> }

Decimal(sign, int, frac) ==
  sign \o int \o (IF frac = <<>> THEN <<>> ELSE <<".">> \o frac)

Pasted ==
  Examples \cup {Decimal(s, i, f) : s \in Signs, i \in Integrals, f \in Fractions}

TypeChar ==
  \E c \in Alphabet :
    /\ ret = NoCall
    /\ Len(input) < MaxLen
    /\ input' = Append(input, c)
    /\ UNCHANGED <<first, second, ret, calls, overflow_checks>>

Paste ==
  \E s \in Pasted :
    /\ ret = NoCall
    /\ input = <<>>
    /\ input' = s
    /\ UNCHANGED <<first, second, ret, calls, overflow_checks>>

Parse ==
  /\ ret = NoCall
  /\ \E out \in from_str(input) : Call("from_str", <<input>>, out)
  /\ UNCHANGED input

ParseNext == TypeChar \/ Paste \/ Parse

ParseSpec == Init /\ [][ParseNext]_vars

(***************************************************************************)
(* What the specification says, stated over the record of the last call.   *)
(***************************************************************************)
WithinSupply(sat) == ZLe(ZInt(0), sat) /\ ZLe(sat, MAX_SUPPLY_BASE_UNITS)

\* the Amounts the caller has in hand
Obtained == {first, second} \cup (IF ret.status = "ok" THEN {ret.val} ELSE {})

\* The specification's grammar ['+'] digit+ ['.' digit+]: whether s matches
\* it, and its integral and fractional digit runs
Unsigned(s) == IF s # <<>> /\ s[1] = "+" THEN Tail(s) ELSE s
IntegralOf(s) == SubSeq(Unsigned(s), 1, DigitRun(Unsigned(s), 1))
AfterIntegral(s) == SubSeq(Unsigned(s), Len(IntegralOf(s)) + 1, Len(Unsigned(s)))
FractionOf(s) == IF AfterIntegral(s) = <<>> THEN <<>> ELSE Tail(AfterIntegral(s))
MatchesGrammar(s) ==
  /\ IntegralOf(s) # <<>>
  /\ \/ AfterIntegral(s) = <<>>
     \/ /\ Head(AfterIntegral(s)) = "."
        /\ FractionOf(s) # <<>>
        /\ DigitRun(FractionOf(s), 1) = Len(FractionOf(s))
StartsNegative(s) == s # <<>> /\ s[1] = "-"

\* I * 100,000,000 + F * 10^(8 - len(F)), for a fraction of at most 8 digits
BaseUnitsOf(s) ==
  ZMk(FALSE, BAdd(BMul(DecValue(IntegralOf(s)), BPow10(8)),
                  BMul(DecValue(FractionOf(s)), BPow10(8 - Len(FractionOf(s))))))
\* whether the decimal s denotes more than the supply ceiling: I.F > 21,000,000
AboveSupply(s) ==
  BCmp(BAdd(BMul(DecValue(IntegralOf(s)), BPow10(Len(FractionOf(s)))),
            DecValue(FractionOf(s))),
       BMul(Nat2Big(21000000), BPow10(Len(FractionOf(s))))) > 0

\* The specification tags a parse error NegativeAmount, InvalidAmount or
\* TooLarge.  The code has one error, ParseAmountError, and no tag: it is
\* taken for whichever tag the specification names, so that a statement
\* about an error fails only where the code returns an Amount.
ErrorTags == {"NegativeAmount", "InvalidAmount", "TooLarge"}
FailsWith(tag) == ret.status = "err" /\ tag \in ErrorTags

(* C1: every Amount obtained by any sequence of the public operations holds
   a base-unit count v with 0 <= v <= 21,000,000 * 100,000,000. *)
C1_AmountsWithinSupply == \A a \in Obtained : WithinSupply(into_inner(a))

(* C2: from_sat(v) with v above the supply ceiling is rejected: it aborts and
   returns no Amount. *)
C2_FromSatRejectsAboveSupply ==
  (ret.op = "from_sat" /\ ZLt(MAX_SUPPLY_BASE_UNITS, ret.args[1]))
    => ret.status = "panic"

(* C3: for every v with 0 <= v <= the supply ceiling, from_sat(v) succeeds
   and into_inner of the Amount it returns is v. *)
C3_FromSatRoundTrips ==
  (ret.op = "from_sat" /\ WithinSupply(ret.args[1]))
    => (ret.status = "ok" /\ into_inner(ret.val) = ret.args[1])

C3_Witness ==
  /\ ret.op = "from_sat"
  /\ ret.args[1] = ZInt(253583)
  /\ ret.status = "ok"
  /\ into_inner(second) = ZInt(253583)

(* C4: adding two Amounts that are each within the supply and whose sum is
   above the ceiling is rejected: add returns no Amount. *)
C4_AddRejectsAboveSupply ==
  ( /\ ret.op = "add"
    /\ WithinSupply(into_inner(ret.args[1]))
    /\ WithinSupply(into_inner(ret.args[2]))
    /\ ZLt(MAX_SUPPLY_BASE_UNITS,
           ZAdd(into_inner(ret.args[1]), into_inner(ret.args[2]))) )
    => ret.status = "panic"

(* C5: max_value() is the Amount of 21,000,000 * 100,000,000 base units and
   min_value() is the Amount of 0 base units. *)
C5_MaxIsSupplyMinIsZero ==
  /\ ret.op = "max_value"
       => (ret.status = "ok" /\ into_inner(ret.val) = MAX_SUPPLY_BASE_UNITS)
  /\ ret.op = "min_value"
       => (ret.status = "ok" /\ into_inner(ret.val) = ZInt(0))

(* C6: from_str of a text whose first character is '-' fails with
   NegativeAmount and returns no Amount. *)
C6_NegativeRejected ==
  (ret.op = "from_str" /\ StartsNegative(ret.args[1]))
    => FailsWith("NegativeAmount")

(* C7: from_str of a text that does not start with '-' and does not match
   ['+'] digit+ ['.' digit+] fails with InvalidAmount. *)
C7_MalformedRejected ==
  (ret.op = "from_str" /\ ~StartsNegative(ret.args[1]) /\ ~MatchesGrammar(ret.args[1]))
    => FailsWith("InvalidAmount")

(* C8: from_str of a text that matches the grammar and denotes more than
   21,000,000 BTC fails with TooLarge and returns no Amount. *)
C8_TooLargeRejected ==
  (ret.op = "from_str" /\ MatchesGrammar(ret.args[1]) /\ AboveSupply(ret.args[1]))
    => FailsWith("TooLarge")

(* C9: from_str of a text ['+'] I ['.' F] with at most 8 fractional digits
   that denotes at most 21,000,000 BTC succeeds and returns exactly
   I * 100,000,000 + F * 10^(8 - len(F)) base units; a leading '+' changes
   nothing. *)
C9_ParseIsExact ==
  ( /\ ret.op = "from_str"
    /\ MatchesGrammar(ret.args[1])
    /\ Len(FractionOf(ret.args[1])) <= 8
    /\ ~AboveSupply(ret.args[1]) )
    => (ret.status = "ok" /\ into_inner(ret.val) = BaseUnitsOf(ret.args[1]))

C9_Witness ==
  /\ ret.op = "from_str"
  /\ ret.args[1] = <<"+", "2", "0", "9", "9", "9", "9", "9", "9", ".", "5", "8">>
  /\ ret.status = "ok"
  /\ into_inner(ret.val) = ZAdd(ZMul(ZInt(20999999), ZInt(SAT_PER_BTC)), ZInt(58000000))

\* q is n / d rounded towards zero: |q| * |d| <= |n| < (|q| + 1) * |d|, with
\* the sign of n * d unless q is 0
IsQuotient(q, n, d) ==
  /\ BCmp(BMul(q.mag, d.mag), n.mag) <= 0
  /\ BCmp(n.mag, BAdd(BMul(q.mag, d.mag), d.mag)) < 0
  /\ q.mag # <<>> => (q.neg = (n.neg # d.neg))

(* C10: mul and div act on the raw base-unit counts, and division undoes
   multiplication: when c is not zero and a + b and (a + b) * c fit the inner
   integer, ((a + b) * c) / c is a + b. *)
C10_DivUndoesMul ==
  /\ ( /\ ret.op = "add_div_mul_sub"
       /\ into_inner(ret.args[3]) # ZInt(0)
       /\ InInner(ZAdd(into_inner(ret.args[1]), into_inner(ret.args[2])))
       /\ InInner(ZMul(ZAdd(into_inner(ret.args[1]), into_inner(ret.args[2])),
                       into_inner(ret.args[3]))) )
       => ( /\ ret.status = "ok"
            /\ into_inner(ret.val)
                 = ZAdd(into_inner(ret.args[1]), into_inner(ret.args[2])) )
  /\ ( /\ ret.op = "mul"
       /\ InInner(ZMul(into_inner(ret.args[1]), into_inner(ret.args[2]))) )
       => ( /\ ret.status = "ok"
            /\ into_inner(ret.val)
                 = ZMul(into_inner(ret.args[1]), into_inner(ret.args[2])) )
  /\ ( /\ ret.op = "div"
       /\ into_inner(ret.args[2]) # ZInt(0)
       /\ ~(ret.args[1] = MIN /\ ret.args[2] = from_sat(ZInt(-1))) )
       => ( /\ ret.status = "ok"
            /\ IsQuotient(into_inner(ret.val),
                          into_inner(ret.args[1]), into_inner(ret.args[2])) )

C10_Witness ==
  /\ ret.op = "add_div_mul_sub"
  /\ ret.status = "ok"
  /\ into_inner(ret.args[1]) = ZInt(250000)
  /\ into_inner(ret.args[2]) = ZInt(50000)
  /\ into_inner(ret.args[3]) = ZInt(200000000)
  /\ into_inner(ret.val) = ZInt(300000)

=============================================================================
